---------------------------- MODULE Spec2Model ----------------------------
(***************************************************************************)
(* ReviewDerivedVariables (edc_utils/review_derived_variables.py): a       *)
(* harness that enumerates combinations of raw field values, applies the   *)
(* fn_* classifier methods of a subclass to each and tallies the labels.   *)
(*                                                                         *)
(* Python values are modelled as strings: "None" stands for None, every    *)
(* other string for itself.  A subject visit is identified by its position *)
(* in the visit queryset (1, 2, ...); 0 stands for "no visit" (None).      *)
(***************************************************************************)
EXTENDS Naturals, Sequences, FiniteSets, TLC

\* ---------------------------------------------------------------- bounds
\* longest opts_<field> list drawn when the generator is checked on its own
MaxOpts == 3
\* most subject visits drawn when the lookup is checked on its own
MaxVisits == 2
\* longest opts_<field> list drawn for a whole run
MaxRunOpts == 2
\* most subject visits drawn for a whole run
MaxRunVisits == 3
\* longest explicit combinations list drawn for a whole run
MaxList == 3
\* number of run_all calls made on one instance
MaxRuns == 2

\* ------------------------------------------------- the reviewed subclass
\* class attribute `fields` of the subclass: the field names of Record
fields == <<"a", "b">>

\* values found in opts_<field> lists
OptValues == {"0", "1"}

\* values stored in model instances ("b" is also the name of a field)
InstValues == {"0", "b"}

\* the fn_* methods of the subclass, in dir() order (sorted by name)
FnAll == <<"fn_first", "fn_same">>

Range(s) == {s[i] : i \in DOMAIN s}

SeqsUpTo(S, n) == UNION {[1..k -> S] : k \in 0..n}

\* What a classifier does with a record: the label it returns and whether it
\* called update_exceptions on the way.  fn_first labels by the first field
\* and reports anything else, falling through to return None; fn_same
\* compares the two fields and reports a mismatch before labelling it.
Classifier(fn_name, record) ==
    IF fn_name = "fn_first"
    THEN IF record[1] = "0" THEN [value |-> "neg", unhandled |-> FALSE]
         ELSE IF record[1] = "1" THEN [value |-> "pos", unhandled |-> FALSE]
         ELSE [value |-> "None", unhandled |-> TRUE]
    ELSE IF record[1] = record[2]
         THEN [value |-> "same", unhandled |-> FALSE]
         ELSE [value |-> "differ", unhandled |-> TRUE]

\* ------------------------------------------------ generate_combinations
\* (variant: the product of the pools as sets of values)
ProductDedup(pools) ==
    LET S == {t \in [1..Len(pools) -> UNION {Range(pools[i]) : i \in 1..Len(pools)}] :
                 \A i \in 1..Len(pools) : t[i] \in Range(pools[i])}
        RECURSIVE Enum(_)
        Enum(T) == IF T = {} THEN <<>>
                   ELSE LET t == CHOOSE x \in T : TRUE IN <<t>> \o Enum(T \ {t})
    IN Enum(S)

\* (variant: the first pool varying fastest)
RECURSIVE ProductFirstFastest(_)
ProductFirstFastest(pools) ==
    IF pools = <<>> THEN << <<>> >>
    ELSE LET rest == ProductFirstFastest(Tail(pools))
             pool == Head(pools)
             n    == Len(pool)
         IN [k \in 1..(Len(rest) * n) |->
                <<pool[((k - 1) % n) + 1]>> \o rest[((k - 1) \div n) + 1]]

\* itertools.product(*pools): the pools are consumed left to right, each
\* new pool varying fastest (result = [x + [y] for x in result for y in pool])
RECURSIVE Product(_)
Product(pools) ==
    IF pools = <<>> THEN << <<>> >>
    ELSE LET rest == Product(SubSeq(pools, 1, Len(pools) - 1))
             pool == pools[Len(pools)]
             n    == Len(pool)
         IN [k \in 1..(Len(rest) * n) |->
                Append(rest[((k - 1) \div n) + 1], pool[((k - 1) % n) + 1])]

\* generate_combinations: every product element as a Record, with no visit
generate_combinations(opts) ==
    LET p == Product(opts) IN [k \in 1..Len(p) |-> <<p[k], 0>>]

\* --------------------------------------------------- get_field_value etc.
\* objects(subject_visit): one instance per model, in the order of
\* self.models; a model with no row for the visit gives a fresh model(),
\* whose fields all hold None.  `visit` is a sequence over the models of
\* rows: [row |-> "found", vals |-> the instance's field values] or
\* [row |-> "missing", vals |-> <<>>] when the get raises DoesNotExist.
objects(model_fields, visit) ==
    [m \in 1..Len(model_fields) |->
        IF visit[m].row = "missing"
        THEN [f \in model_fields[m] |-> "None"]
        ELSE visit[m].vals]

\* get_field_value: the first instance with the attribute decides
get_field_value(model_fields, field_name, visit) ==
    LET objs == objects(model_fields, visit)
        has  == {m \in 1..Len(objs) : field_name \in DOMAIN objs[m]}
    IN IF has = {} THEN "None"
       ELSE objs[CHOOSE m \in has : \A n \in has : m <= n][field_name]

\* list.index(x): position of the first element equal to x
index(list, x) ==
    CHOOSE i \in 1..Len(list) : list[i] = x /\ \A j \in 1..(i - 1) : list[j] # x

\* values_list_from: starts from the list of field names and overwrites, for
\* each field in turn, the first element equal to the field's name
RECURSIVE values_list_loop(_, _, _, _)
values_list_loop(model_fields, visit, values_list, i) ==
    IF i > Len(fields) THEN values_list
    ELSE values_list_loop(model_fields, visit,
            [values_list EXCEPT ![index(values_list, fields[i])] =
                get_field_value(model_fields, fields[i], visit)],
            i + 1)

values_list_from(model_fields, visit) ==
    values_list_loop(model_fields, visit, fields, 1)

\* ---------------------------------------------------- lookup_combinations
\* (variants: the append never made, and made whatever the flag)
found_after_never(use_unique, found, values_list) == found

found_after_always(use_unique, found, values_list) == Append(found, values_list)

\* found.append(values_list), done only under use_unique_combinations
found_after(use_unique, found, values_list) ==
    IF use_unique THEN Append(found, values_list) ELSE found

\* The generator resumed with `pos` visits consumed: it walks the remaining
\* visits and stops at the first one whose values_list is not in found.
RECURSIVE lookup_combinations(_, _, _, _, _)
lookup_combinations(model_fields, visits, use_unique, p, fnd) ==
    IF p >= Len(visits)
    THEN [stop |-> TRUE, pair |-> <<>>, pos |-> p, found |-> fnd]
    ELSE LET values_list == values_list_from(model_fields, visits[p + 1])
         IN IF values_list \notin Range(fnd)
            THEN [stop |-> FALSE, pair |-> <<values_list, p + 1>>, pos |-> p + 1,
                  found |-> found_after(use_unique, fnd, values_list)]
            ELSE lookup_combinations(model_fields, visits, use_unique, p + 1, fnd)

\* ----------------------------------------------------------------- state
VARIABLES
    opts,                    \* the opts_<field> lists, in field order
    model_fields,            \* per model of self.models: the attributes it has
    subject_visits,          \* self.subject_visits, in queryset order
    combinations,            \* the combinations argument ( <<>> if not given)
    explicit,                \* a combinations argument was given (not None)
    source,                  \* what self.combinations is: "list", "synthetic", "lookup"
    raise_exceptions,        \* self.raise_exceptions
    use_unique_combinations, \* self.use_unique_combinations, as a truth value
    fn_name_arg,             \* the fn_name argument ("None" if not given)
    fn_names,                \* self.fn_names
    data_values,             \* self.data_values
    data_exceptions,         \* self.data_exceptions
    pc,                      \* where the program is
    pos,                     \* elements the iterator over self.combinations has consumed
    found,                   \* local `found` of the suspended lookup generator
    cur,                     \* (record, subject_visit) of the loop in run_all
    fn_idx,                  \* position of the inner loop of run_all in fn_names
    yielded,                 \* history: everything a generator source yielded
    calls,                   \* history: classifier invocations of this run
    pulled,                  \* history: combinations taken from the source in this run
    processed,               \* history: combinations all of fn_names were applied to
    pulled_before,           \* history: generator yields before this run
    prev_tally,              \* history: data_values when the previous run ended
    prev_pc,                 \* history: how the previous run ended
    runs                     \* history: number of run_all calls so far

cfgvars == <<opts, model_fields, subject_visits, combinations, explicit, source,
             raise_exceptions, use_unique_combinations, fn_name_arg,
             fn_names>>

runvars == <<data_values, data_exceptions, fn_idx, calls, processed,
             pulled_before, prev_tally, prev_pc, runs>>

vars == <<cfgvars, runvars, pc, pos, found, cur, yielded, pulled>>

\* ------------------------------------------------------------- __init__
\* raise_exceptions if raise_exceptions is True else False
raise_flag(arg) == arg = "True"

\* [fn_name] if fn_name else the fn_* names of dir(self)
select_fn_names(fn_name) == IF fn_name # "None" THEN <<fn_name>> ELSE FnAll

\* if combinations: ... else: lookup_combinations() or generate_combinations()
select_source(comb, lookup) ==
    IF comb # <<>> THEN "list" ELSE IF lookup THEN "lookup" ELSE "synthetic"

\* ------------------------------------------------------------ operations
\* (variant: the test of raise_exceptions before the append)
update_exceptions_raise_first(de, re, fn_name, record, subject_visit) ==
    IF re THEN de
    ELSE [de EXCEPT ![fn_name] =
            Append(@, IF subject_visit # 0 THEN <<record, subject_visit>>
                      ELSE <<record>>)]

\* update_exceptions: the entry appended to the classifier's log is
\* [list(record), subject_visit] for a visit, and list(record) alone (the
\* one-element <<record>> here) without one; the append comes before the
\* test of raise_exceptions.
update_exceptions(de, re, fn_name, record, subject_visit) ==
    [de EXCEPT ![fn_name] =
        Append(@, IF subject_visit # 0 THEN <<record, subject_visit>>
                  ELSE <<record>>)]

\* (variant: no raise)
raises_never(re) == FALSE

\* if self.raise_exceptions: raise ValueError(...)
raises(re) == re

\* (variant: the counter set to one instead of incremented)
increment_counter_set(dv, value, fn_name) ==
    [dv EXCEPT ![fn_name] =
        [v \in DOMAIN @ \cup {value} |-> IF v = value THEN 1 ELSE @[v]]]

\* increment_counter: a value not seen yet starts at 0, then one is added
increment_counter(dv, value, fn_name) ==
    [dv EXCEPT ![fn_name] =
        [v \in DOMAIN @ \cup {value} |->
            IF v = value THEN (IF v \in DOMAIN @ THEN @[v] ELSE 0) + 1 ELSE @[v]]]

\* (variant: the tables kept from the run before)
reset_keep(table, names, empty) == table

\* run_all, lines 44-46: an empty table for every name of fn_names
reset(table, names, empty) ==
    [n \in DOMAIN table \cup Range(names) |->
        IF n \in Range(names) THEN empty ELSE table[n]]

\* (variant: every source iterated from its start)
iter_fresh(src, p) == 0

\* iter(self.combinations) at the head of the loop of run_all: a list is
\* iterated from its start, a generator is its own iterator and goes on
\* from where it was left
iter(src, p) == IF src = "list" THEN 0 ELSE p

\* (variant: the inner loop left after the first name)
next_fn_first_only(names, i) == IF i = 0 THEN 1 ELSE 0

\* the order in which the loops of run_all reach the classifiers: the fn
\* after position i of fn_names, 0 when the combination is finished
next_fn(names, i) == IF i < Len(names) THEN i + 1 ELSE 0

\* next(iterator) on self.combinations
SourceNext ==
    CASE source = "list" ->
            IF pos < Len(combinations)
            THEN [stop |-> FALSE, pair |-> combinations[pos + 1], pos |-> pos + 1,
                  found |-> found]
            ELSE [stop |-> TRUE, pair |-> <<>>, pos |-> pos, found |-> found]
      [] source = "synthetic" ->
            LET g == generate_combinations(opts)
            IN IF pos < Len(g)
               THEN [stop |-> FALSE, pair |-> g[pos + 1], pos |-> pos + 1,
                     found |-> found]
               ELSE [stop |-> TRUE, pair |-> <<>>, pos |-> pos, found |-> found]
      [] source = "lookup" ->
            lookup_combinations(model_fields, subject_visits,
                                use_unique_combinations, pos, found)

\* run_all is called (by __init__ under run_all=True, or by the user)
RunAll ==
    /\ pc \in {"idle", "done", "aborted"}
    /\ runs < MaxRuns
    /\ data_values' = reset(data_values, fn_names, <<>>)
    /\ data_exceptions' = reset(data_exceptions, fn_names, <<>>)
    /\ pos' = iter(source, pos)
    /\ pc' = "iter"
    /\ runs' = runs + 1
    /\ calls' = <<>>
    /\ pulled' = 0
    /\ processed' = 0
    /\ pulled_before' = Len(yielded)
    /\ prev_tally' = data_values
    /\ prev_pc' = pc
    /\ fn_idx' = 0
    /\ UNCHANGED <<cfgvars, found, cur, yielded>>

\* for record, subject_visit in self.combinations
NextCombination ==
    /\ pc = "iter"
    /\ LET n == SourceNext
       IN /\ pos' = n.pos
          /\ found' = n.found
          /\ IF n.stop
             THEN /\ pc' = "done"
                  /\ UNCHANGED <<cur, fn_idx, pulled, yielded>>
             ELSE /\ pc' = "call"
                  /\ cur' = n.pair
                  /\ fn_idx' = next_fn(fn_names, 0)
                  /\ pulled' = pulled + 1
                  /\ yielded' = IF source = "list" THEN yielded
                                ELSE Append(yielded, n.pair)
    /\ UNCHANGED <<cfgvars, data_values, data_exceptions, calls, processed,
                   pulled_before, prev_tally, prev_pc, runs>>

\* value = getattr(self, fn_name)(record, subject_visit), with the
\* update_exceptions call the classifier may make, then increment_counter
CallClassifier ==
    /\ pc = "call"
    /\ LET fn      == fn_names[fn_idx]
           out     == Classifier(fn, cur[1])
           raised  == out.unhandled /\ raises(raise_exceptions)
       IN /\ calls' = Append(calls, [n |-> pulled, fn |-> fn, pair |-> cur])
          /\ data_exceptions' =
                IF out.unhandled
                THEN update_exceptions(data_exceptions, raise_exceptions,
                                       fn, cur[1], cur[2])
                ELSE data_exceptions
          /\ IF raised
             THEN /\ pc' = "aborted"
                  /\ UNCHANGED <<data_values, fn_idx, processed>>
             ELSE /\ data_values' = increment_counter(data_values, out.value, fn)
                  /\ fn_idx' = next_fn(fn_names, fn_idx)
                  /\ pc' = IF fn_idx' = 0 THEN "iter" ELSE "call"
                  /\ processed' = IF fn_idx' = 0 THEN processed + 1 ELSE processed
    /\ UNCHANGED <<cfgvars, pos, found, cur, yielded, pulled, pulled_before,
                   prev_tally, prev_pc, runs>>

\* a consumer that only iterates the generator (list(self.combinations))
Consume ==
    /\ pc = "gen"
    /\ LET n == SourceNext
       IN /\ pos' = n.pos
          /\ found' = n.found
          /\ IF n.stop
             THEN /\ pc' = "stopped"
                  /\ UNCHANGED <<cur, pulled, yielded>>
             ELSE /\ pc' = "gen"
                  /\ cur' = n.pair
                  /\ pulled' = pulled + 1
                  /\ yielded' = Append(yielded, n.pair)
    /\ UNCHANGED <<cfgvars, runvars>>

\* ------------------------------------------------------- initial states
\* everything __init__ sets that does not depend on the arguments drawn
Constructed(start) ==
    /\ data_values = <<>>
    /\ data_exceptions = <<>>
    /\ pc = start
    /\ pos = 0
    /\ found = <<>>
    /\ cur = <<>>
    /\ fn_idx = 0
    /\ yielded = <<>>
    /\ calls = <<>>
    /\ pulled = 0
    /\ processed = 0
    /\ pulled_before = 0
    /\ prev_tally = <<>>
    /\ prev_pc = "idle"
    /\ runs = 0

RaiseArgs == {"True", "False", "None", "1"}

FnArgs == {"None"} \cup Range(FnAll)

DefaultOpts == << <<"0">>, <<"1">> >>

DefaultModels == << {"a"}, {"a", "b"} >>

\* the rows a visit can have for a model with the attributes F
Rows(F) == {[row |-> "missing", vals |-> <<>>]}
              \cup {[row |-> "found", vals |-> v] : v \in [F -> InstValues]}

\* the visits that can exist for the models mf
Visits(mf) == {v \in [1..Len(mf) -> UNION {Rows(mf[m]) : m \in 1..Len(mf)}] :
                  \A m \in 1..Len(mf) : v[m] \in Rows(mf[m])}

\* explicit combinations: records both classifiers handle, only one handles
\* and neither handles, without a visit and (the last) with one
ListPairs == { << <<"0", "0">>, 0 >>, << <<"1", "0">>, 0 >>, << <<"b", "b">>, 0 >>,
               << <<"b", "0">>, 0 >>, << <<"b", "0">>, 1 >> }

\* visits of a whole run: value tuples (0,0), (b,b) and (None,b), the third
\* with a missing row for the first model
RunVisits ==
    { << [row |-> "found", vals |-> [f \in {"a"} |-> "0"]],
         [row |-> "found", vals |-> [f \in {"a", "b"} |-> "0"]] >>,
      << [row |-> "found", vals |-> [f \in {"a"} |-> "b"]],
         [row |-> "found", vals |-> [f \in {"a", "b"} |-> "b"]] >>,
      << [row |-> "missing", vals |-> <<>>],
         [row |-> "found", vals |-> [f \in {"a", "b"} |-> "b"]] >> }

\* a constructed instance on which run_all has not run yet
Init ==
    /\ Constructed("idle")
    /\ \E arg \in RaiseArgs : raise_exceptions = raise_flag(arg)
    /\ fn_name_arg \in FnArgs
    /\ fn_names = select_fn_names(fn_name_arg)
    /\ \/ /\ combinations \in SeqsUpTo(ListPairs, MaxList) \ {<<>>}
          /\ explicit = TRUE
          /\ source = select_source(combinations, FALSE)
          /\ opts = DefaultOpts
          /\ model_fields = DefaultModels
          /\ subject_visits = <<>>
          /\ use_unique_combinations = FALSE
       \/ /\ combinations = <<>>
          /\ explicit \in BOOLEAN
          /\ source = select_source(combinations, FALSE)
          /\ opts \in [1..Len(fields) -> SeqsUpTo(OptValues, MaxRunOpts)]
          /\ model_fields = DefaultModels
          /\ subject_visits = <<>>
          /\ use_unique_combinations = FALSE
       \/ /\ combinations = <<>>
          /\ explicit = FALSE
          /\ source = select_source(combinations, TRUE)
          /\ opts = DefaultOpts
          /\ model_fields = DefaultModels
          /\ subject_visits \in SeqsUpTo(RunVisits, MaxRunVisits)
          /\ use_unique_combinations \in BOOLEAN

Next == RunAll \/ NextCombination \/ CallClassifier

Spec == Init /\ [][Next]_vars

\* the synthetic generator alone, over all option lists up to MaxOpts
InitGen ==
    /\ Constructed("gen")
    /\ raise_exceptions = raise_flag("None")
    /\ fn_name_arg = "None"
    /\ fn_names = select_fn_names(fn_name_arg)
    /\ combinations = <<>>
    /\ explicit = FALSE
    /\ source = select_source(combinations, FALSE)
    /\ opts \in [1..Len(fields) -> SeqsUpTo(OptValues, MaxOpts)]
    /\ model_fields = DefaultModels
    /\ subject_visits = <<>>
    /\ use_unique_combinations = FALSE

SpecGen == InitGen /\ [][Consume]_vars

\* the lookup generator alone, over all models and visits up to MaxVisits
InitLookup ==
    /\ Constructed("gen")
    /\ raise_exceptions = raise_flag("None")
    /\ fn_name_arg = "None"
    /\ fn_names = select_fn_names(fn_name_arg)
    /\ combinations = <<>>
    /\ explicit = FALSE
    /\ source = select_source(combinations, TRUE)
    /\ opts = DefaultOpts
    /\ model_fields \in [1..2 -> SUBSET Range(fields)]
    /\ subject_visits \in SeqsUpTo(Visits(model_fields), MaxVisits)
    /\ use_unique_combinations \in BOOLEAN

SpecLookup == InitLookup /\ [][Consume]_vars

\* =================================================== generate_combinations
\* how often x occurs in the list s
Count(s, x) == Cardinality({i \in DOMAIN s : s[i] = x})

\* the records a generator has yielded so far, and their visits
YieldedRecords == [k \in DOMAIN yielded |-> yielded[k][1]]

NoVisit == \A k \in DOMAIN yielded : yielded[k][2] = 0

\* the value tuples of the cartesian product of the option lists
ProductSet == {t \in [1..Len(fields) -> OptValues] :
                  \A i \in 1..Len(fields) : t[i] \in Range(opts[i])}

RECURSIVE Multiplicity(_, _)
Multiplicity(t, i) ==
    IF i = 0 THEN 1 ELSE Count(opts[i], t[i]) * Multiplicity(t, i - 1)

\* C1, as stated: once the synthetic generator is exhausted it has yielded
\* exactly the value tuples of the cartesian product of the option lists,
\* each value tuple exactly once, every one without a visit.
C1_EachTupleOnce ==
    pc = "stopped" =>
        /\ Range(YieldedRecords) = ProductSet
        /\ \A t \in ProductSet : Count(YieldedRecords, t) = 1
        /\ NoVisit

\* C1, amended: once the synthetic generator is exhausted it has yielded one
\* combination per choice of one position in each option list, so that a
\* value tuple is yielded as often as the product of the numbers of times its
\* components occur in their option lists (once when no list repeats a
\* value, never when a list is empty), every one without a visit.
C1_FullProduct ==
    /\ NoVisit
    /\ pc = "stopped" =>
          /\ Len(yielded) = Len(opts[1]) * Len(opts[2])
          /\ \A t \in [1..Len(fields) -> OptValues] :
                Count(YieldedRecords, t) = Multiplicity(t, Len(fields))

C1_Witness ==
    /\ pc = "stopped"
    /\ opts = << <<"0", "0">>, <<"0", "1">> >>
    /\ Count(YieldedRecords, <<"0", "1">>) = 2

\* C5: the synthetic generator yields in the nested iteration order of the
\* option lists, first field slowest and last field fastest: the k-th
\* combination takes position (k-1) div n of the first list and (k-1) mod n
\* of the second, n being the length of the second; the lists [0,1], [0,1]
\* give (0,0), (0,1), (1,0), (1,1).
C5_NestedOrder ==
    /\ \A k \in DOMAIN yielded :
          /\ k <= Len(opts[1]) * Len(opts[2])
          /\ yielded[k][1] = << opts[1][((k - 1) \div Len(opts[2])) + 1],
                                opts[2][((k - 1) % Len(opts[2])) + 1] >>
    /\ pc = "stopped" => Len(yielded) = Len(opts[1]) * Len(opts[2])
    /\ (pc = "stopped" /\ opts = << <<"0", "1">>, <<"0", "1">> >>) =>
          YieldedRecords = << <<"0", "0">>, <<"0", "1">>, <<"1", "0">>, <<"1", "1">> >>

C5_Witness ==
    /\ pc = "stopped"
    /\ opts = << <<"0", "1">>, <<"0", "1">> >>
    /\ Len(yielded) = 4

\* ===================================================== lookup_combinations
\* the value tuple the lookup computes for the i-th visit
ValuesOf(i) == values_list_from(model_fields, subject_visits[i])

\* the value of a field for a visit: that of the first model instance, in
\* the order of self.models, that has the attribute; None when none has it
RECURSIVE Probe(_, _, _)
Probe(field_name, visit, m) ==
    IF m > Len(model_fields) THEN "None"
    ELSE IF field_name \in model_fields[m]
         THEN IF visit[m].row = "missing" THEN "None" ELSE visit[m].vals[field_name]
         ELSE Probe(field_name, visit, m + 1)

\* C8: the record looked up for a visit holds, at the position of each
\* field, the value of the first model instance that exposes the field
\* (instances without the attribute are skipped, None when none has it).
C8_ProbedValuesByPosition ==
    \A k \in DOMAIN yielded :
        yielded[k][1] = [i \in 1..Len(fields) |->
                            Probe(fields[i], subject_visits[yielded[k][2]], 1)]

\* C4: under use_unique_combinations no two yielded combinations carry the
\* same value tuple, and once the lookup is exhausted the value tuple of
\* every visit (as values_list_from computes it) has been yielded.
C4_UniqueAndComplete ==
    use_unique_combinations =>
        /\ \A j, k \in DOMAIN yielded : yielded[j][1] = yielded[k][1] => j = k
        /\ pc = "stopped" =>
              Range(YieldedRecords) = {ValuesOf(i) : i \in DOMAIN subject_visits}

C4_Witness ==
    /\ use_unique_combinations
    /\ pc = "stopped"
    /\ Len(subject_visits) = MaxVisits
    /\ ValuesOf(1) = ValuesOf(MaxVisits)
    /\ Len(yielded) = MaxVisits - 1

\* the visits among the first p whose value tuple no earlier visit has
FirstOccurrences(p) ==
    {i \in 1..p : \A j \in 1..(i - 1) : ValuesOf(j) # ValuesOf(i)}

\* C9: every yielded pair is (value tuple of the visit as values_list_from
\* computes it, the visit) and the
\* pairs come in visit order; without deduplication every visit consumed so
\* far has its pair, repeats included; with it exactly the visits that are
\* the first with their value tuple have one.
C9_OnePairPerVisitOrFirst ==
    /\ \A k \in DOMAIN yielded :
          /\ yielded[k][2] \in DOMAIN subject_visits
          /\ yielded[k][1] = ValuesOf(yielded[k][2])
    /\ \A j, k \in DOMAIN yielded : j < k => yielded[j][2] < yielded[k][2]
    /\ {yielded[k][2] : k \in DOMAIN yielded} =
          IF use_unique_combinations THEN FirstOccurrences(pos) ELSE 1..pos
    /\ pc = "stopped" => pos = Len(subject_visits)

C9_Witness ==
    /\ ~use_unique_combinations
    /\ pc = "stopped"
    /\ Len(yielded) = MaxVisits
    /\ yielded[1][1] = yielded[MaxVisits][1]

\* ================================================================= run_all
RECURSIVE SumOver(_, _)
SumOver(f, S) ==
    IF S = {} THEN 0
    ELSE LET x == CHOOSE y \in S : TRUE IN f[x] + SumOver(f, S \ {x})

\* the sum of a classifier's tally counts over all output values
TallySum(fn_name) == SumOver(data_values[fn_name], DOMAIN data_values[fn_name])

\* what the classifier did on the k-th invocation of this run
Out(k) == Classifier(calls[k].fn, calls[k].pair[1])

\* the invocations of this run that returned a value to run_all
Returned == {k \in DOMAIN calls : ~(pc = "aborted" /\ k = Len(calls))}

\* C2: in a run that was not aborted, the tally counts of every classifier
\* add up to the number of combinations it has been applied to: all those
\* taken from the source between combinations and at the end of the run, and
\* inside a combination one less for the classifiers still to come; this
\* whether or not combinations were reported as unhandled.
C2_TallySumsToProcessed ==
    (runs >= 1 /\ pc \in {"iter", "call", "done"}) =>
        \A i \in DOMAIN fn_names :
            TallySum(fn_names[i]) =
                IF pc = "call" /\ i >= fn_idx THEN pulled - 1 ELSE pulled

C2_Witness ==
    /\ pc = "done"
    /\ ~raise_exceptions
    /\ pulled >= 2
    /\ Len(fn_names) = 2
    /\ \E fn \in Range(fn_names) : data_exceptions[fn] # <<>>
    /\ \E fn \in Range(fn_names) : \E v \in DOMAIN data_values[fn] :
          data_values[fn][v] >= 2

\* C3: with raise_exceptions set, an invocation that calls update_exceptions
\* is the last invocation of the run: the run is aborted there, no classifier
\* is invoked after it, and the tallies count the offending combination only
\* for the classifiers that came before the offending one.
C3_FirstUnhandledAborts ==
    raise_exceptions =>
        /\ \A k \in DOMAIN calls :
              Out(k).unhandled => (k = Len(calls) /\ pc = "aborted")
        /\ pc = "aborted" =>
              /\ calls # <<>>
              /\ Out(Len(calls)).unhandled
              /\ calls[Len(calls)] = [n |-> pulled, fn |-> fn_names[fn_idx], pair |-> cur]
              /\ Len(calls) = (pulled - 1) * Len(fn_names) + fn_idx
              /\ \A i \in DOMAIN fn_names :
                    TallySum(fn_names[i]) = IF i < fn_idx THEN pulled ELSE pulled - 1

C3_Witness ==
    /\ pc = "aborted"
    /\ source = "list"
    /\ pulled < Len(combinations)
    /\ fn_idx < Len(fn_names)

\* the entry update_exceptions logs for a combination
Entry(pair) == IF pair[2] # 0 THEN <<pair[1], pair[2]>> ELSE <<pair[1]>>

\* the entries of the combinations a classifier reported in this run
Reported(fn_name) ==
    LET sel == SelectSeq([k \in DOMAIN calls |-> k],
                         LAMBDA k : calls[k].fn = fn_name /\ Out(k).unhandled)
    IN [j \in DOMAIN sel |-> Entry(calls[sel[j]].pair)]

\* C6, as stated: with raise_exceptions off every reported combination is
\* appended to the classifier's log and the run goes on; with it set the
\* report aborts the run instead of appending, so that the logs are as they
\* were before the aborting call (empty, since the first report aborts).
C6_AbortReplacesAppend ==
    runs >= 1 =>
        /\ ~raise_exceptions =>
              /\ pc # "aborted"
              /\ \A fn \in Range(fn_names) : data_exceptions[fn] = Reported(fn)
        /\ raise_exceptions =>
              /\ (calls # <<>> /\ Out(Len(calls)).unhandled) => pc = "aborted"
              /\ \A fn \in Range(fn_names) : data_exceptions[fn] = <<>>

\* C6, amended: every reported combination is appended to the classifier's
\* log, whatever raise_exceptions is; with raise_exceptions off the run goes
\* on, with it set the run is aborted after the append, so that the log
\* holds the offending combination when the run is aborted.
C6_AppendThenAbort ==
    runs >= 1 =>
        /\ \A fn \in Range(fn_names) : data_exceptions[fn] = Reported(fn)
        /\ pc = "aborted" <=>
              (raise_exceptions /\ calls # <<>> /\ Out(Len(calls)).unhandled)

C6_Witness ==
    /\ pc = "aborted"
    /\ cur[2] # 0
    /\ data_exceptions[fn_names[fn_idx]] = << <<cur[1], cur[2]>> >>

\* the n-th combination the source gives in this run
NthOfRun(n) ==
    CASE source = "list" -> combinations[n]
      [] source = "synthetic" -> generate_combinations(opts)[pulled_before + n]
      [] source = "lookup" -> yielded[pulled_before + n]

\* C7: run_all creates the tables of the names in fn_names and of no other
\* (one name when fn_name was given), and invokes the classifiers in one pass
\* in source order: the k-th invocation of the run is that of classifier
\* ((k-1) mod L)+1 on combination ((k-1) div L)+1, L being the number of
\* names; a run that ends normally has exhausted the source.
C7_SinglePassInOrder ==
    runs >= 1 =>
        /\ DOMAIN data_values = Range(fn_names)
        /\ DOMAIN data_exceptions = Range(fn_names)
        /\ Range(fn_names) =
              IF fn_name_arg # "None" THEN {fn_name_arg} ELSE Range(FnAll)
        /\ \A k \in DOMAIN calls :
              /\ calls[k].n = ((k - 1) \div Len(fn_names)) + 1
              /\ calls[k].fn = fn_names[((k - 1) % Len(fn_names)) + 1]
              /\ calls[k].pair = NthOfRun(calls[k].n)
        /\ \A j, k \in DOMAIN yielded :
              (source = "lookup" /\ j < k) => yielded[j][2] < yielded[k][2]
        /\ pc \in {"iter", "done"} => Len(calls) = pulled * Len(fn_names)
        /\ pc = "done" => SourceNext.stop

C7_Witness ==
    /\ pc = "done"
    /\ source = "list"
    /\ Len(fn_names) = 2
    /\ Len(calls) = 2 * MaxList
    /\ combinations[1] # combinations[2]

\* the tally of the values the classifier returned in this run
Tally(fn_name) ==
    LET mine == {k \in Returned : calls[k].fn = fn_name}
    IN [v \in {Out(k).value : k \in mine} |->
            Cardinality({k \in mine : Out(k).value = v})]

\* the tables hold what this run tallied and nothing from an earlier run
TablesOfThisRun ==
    runs >= 1 => \A fn \in Range(fn_names) :
                    /\ data_values[fn] = Tally(fn)
                    /\ data_exceptions[fn] = Reported(fn)

EmptyTallies == \A fn \in Range(fn_names) : data_values[fn] = <<>>

\* C10, as stated: the tables hold the tallies of the current run only; with
\* a generator source a second run_all processes no combination and ends
\* with empty tallies; with an explicitly supplied combinations list a
\* second run_all ends with the tallies of the first.
C10_SecondRunEmptyOrSame ==
    /\ TablesOfThisRun
    /\ (source # "list" /\ runs >= 2) =>
          /\ pulled = 0
          /\ pc = "done" => EmptyTallies
    /\ (explicit /\ runs >= 2 /\ pc \in {"done", "aborted"}) =>
          data_values = prev_tally

\* C10, amended: the tables hold the tallies of the current run only; a
\* generator source never yields a combination again, so that a later
\* run_all processes only what the earlier runs left in the generator:
\* nothing (and it ends with empty tallies) after a run that ended normally,
\* the combinations after the offending one after a run that was aborted;
\* with a non-empty explicitly supplied combinations list every run_all
\* iterates the whole list again and ends with the tallies of the run before
\* (an empty list counts as not supplied and selects a generator).
C10_SecondRunResumesOrRepeats ==
    /\ TablesOfThisRun
    /\ source = "list" <=> combinations # <<>>
    /\ source # "list" =>
          /\ Len(yielded) = pulled_before + pulled
          /\ \A k \in DOMAIN yielded :
                /\ source = "synthetic" => yielded[k] = generate_combinations(opts)[k]
                /\ source = "lookup" =>
                      \A j \in 1..(k - 1) : yielded[j][2] < yielded[k][2]
          /\ (runs >= 2 /\ prev_pc = "done") =>
                /\ pulled = 0
                /\ pc = "done" => EmptyTallies
          /\ pc = "done" => SourceNext.stop
    /\ (source = "list" /\ runs >= 2 /\ pc \in {"done", "aborted"}) =>
          data_values = prev_tally

C10_Witness ==
    /\ runs = 2
    /\ prev_pc = "aborted"
    /\ source = "synthetic"
    /\ pc = "done"
    /\ pulled > 0
    /\ ~EmptyTallies

=============================================================================
